---- MODULE Spec2Model ----
(***************************************************************************)
(* Model of the mail-send detector: the background service worker          *)
(* (src/background.js: body decoder, Gmail smartlabel search, the five     *)
(* provider classifiers, the six onBeforeRequest listeners) and the        *)
(* content script (src/originalSourceCode/script.js: the banner).          *)
(*                                                                         *)
(* Text is a sequence of atoms (short character runs); String.includes is  *)
(* contiguous sub-sequence search, JSON.parse is a recursive-descent       *)
(* parser over the atoms.  A JavaScript value is a pair <<tag, payload>>.  *)
(* A call that may throw yields a record with a field `threw`.             *)
(***************************************************************************)
EXTENDS Integers, Sequences, FiniteSets, TLC

(***************************************************************************)
(* Bounds of the model.                                                    *)
(***************************************************************************)
\* nodes (arrays, objects, strings, null, the junk prefix, extra chunks) of a
\* generated Gmail request body
MaxNodes == 5
\* elements of a Yahoo batchJson sequence
MaxBatch == 2
\* requests the browser intercepts in one run of the pipeline
MaxRequests == 2
\* messages the content script receives in one run
MaxMessages == 4

(***************************************************************************)
(* Text.                                                                   *)
(***************************************************************************)
Q == "\""

Includes(s, pat) ==
  \E i \in 0..(Len(s) - Len(pat)) : SubSeq(s, i + 1, i + Len(pat)) = pat

Quoted(s) == <<Q>> \o s \o <<Q>>

\* the contents of the string literals of background.js, as atoms
S_pfg == <<"^pfg">>
S_f_bt == <<"^f", "_bt">>
S_r == <<"^r">>
S_r_bt == <<"^r", "_bt">>
S_io_fwd == <<"^io_", "fwd">>
S_io_re == <<"^io_", "re">>
S_io_lr == <<"^io_", "lr">>
S_io_lr2m == <<"^io_", "lr", "2m">>
S_io_lr30s == <<"^io_", "lr", "30s">>
S_plain == <<"x">>

Strings ==
  { S_pfg, S_f_bt, S_r, S_r_bt, S_io_fwd, S_io_re,
    S_io_lr, S_io_lr2m, S_io_lr30s, S_plain }

\* atoms that start with a caret followed by at least one of [a-z_]
CaretWordAtoms == { "^pfg", "^f", "^r", "^io_" }

(***************************************************************************)
(* JavaScript values: <<"str", atoms>>, <<"null", 0>>, <<"arr", elements>>,*)
(* <<"obj", <<key atoms, value>> pairs in key order>>.                     *)
(***************************************************************************)
Str(s) == <<"str", s>>
Null == <<"null", 0>>
Arr(es) == <<"arr", es>>
Obj(kvs) == <<"obj", kvs>>

IsStr(v) == v[1] = "str"
IsArr(v) == v[1] = "arr"
IsObj(v) == v[1] = "obj"

\* JavaScript truthiness of a parsed value
Truthy(v) ==
  CASE v[1] = "null" -> FALSE
    [] v[1] = "str" -> Len(v[2]) > 0
    [] OTHER -> TRUE

(***************************************************************************)
(* JSON text of a value, as the page writes it into the request body.      *)
(***************************************************************************)
RECURSIVE Stringify(_)
RECURSIVE StringifyElems(_)
RECURSIVE StringifyPairs(_)

StringifyElems(es) ==
  IF Len(es) = 0 THEN <<>>
  ELSE IF Len(es) = 1 THEN Stringify(es[1])
  ELSE Stringify(es[1]) \o <<",">> \o StringifyElems(Tail(es))

StringifyPairs(kvs) ==
  IF Len(kvs) = 0 THEN <<>>
  ELSE LET one == Quoted(kvs[1][1]) \o <<":">> \o Stringify(kvs[1][2])
       IN IF Len(kvs) = 1 THEN one
          ELSE one \o <<",">> \o StringifyPairs(Tail(kvs))

Stringify(v) ==
  CASE v[1] = "str" -> Quoted(v[2])
    [] v[1] = "null" -> <<"null">>
    [] v[1] = "arr" -> <<"[">> \o StringifyElems(v[2]) \o <<"]">>
    [] v[1] = "obj" -> <<"{">> \o StringifyPairs(v[2]) \o <<"}">>

(***************************************************************************)
(* JSON.parse: recursive descent over the atoms.  Each parser returns      *)
(* [ok, val, rest]; the parse succeeds when the whole text is one value.   *)
(***************************************************************************)
ParseFail == [ok |-> FALSE, val |-> Null, rest |-> <<>>]

\* the atoms of a string literal up to its closing quote: [ok, val, rest]
RECURSIVE ParseStringBody(_, _)
ParseStringBody(s, acc) ==
  IF Len(s) = 0 THEN ParseFail
  ELSE IF s[1] = Q THEN [ok |-> TRUE, val |-> Str(acc), rest |-> Tail(s)]
  ELSE ParseStringBody(Tail(s), Append(acc, s[1]))

RECURSIVE ParseValue(_)
RECURSIVE ParseElems(_, _)
RECURSIVE ParsePairs(_, _)

\* after "[" or after a ",": a value, then "," or "]"
ParseElems(s, acc) ==
  LET v == ParseValue(s)
  IN IF ~v.ok \/ Len(v.rest) = 0 THEN ParseFail
     ELSE IF v.rest[1] = "]"
       THEN [ok |-> TRUE, val |-> Arr(Append(acc, v.val)), rest |-> Tail(v.rest)]
     ELSE IF v.rest[1] = ","
       THEN ParseElems(Tail(v.rest), Append(acc, v.val))
     ELSE ParseFail

\* obj[k] = v on the object under construction: a repeated key keeps its place
\* and takes the last value
PutPair(kvs, k, v) ==
  IF \E i \in 1..Len(kvs) : kvs[i][1] = k
    THEN [i \in 1..Len(kvs) |-> IF kvs[i][1] = k THEN <<k, v>> ELSE kvs[i]]
  ELSE Append(kvs, <<k, v>>)

\* after "{" or after a ",": a string key, ":", a value, then "," or "}"
ParsePairs(s, acc) ==
  IF Len(s) = 0 \/ s[1] # Q THEN ParseFail
  ELSE LET k == ParseStringBody(Tail(s), <<>>)
       IN IF ~k.ok \/ Len(k.rest) = 0 \/ k.rest[1] # ":" THEN ParseFail
          ELSE LET v == ParseValue(Tail(k.rest))
               IN IF ~v.ok \/ Len(v.rest) = 0 THEN ParseFail
                  ELSE LET kvs == PutPair(acc, k.val[2], v.val)
                       IN IF v.rest[1] = "}"
                            THEN [ok |-> TRUE, val |-> Obj(kvs), rest |-> Tail(v.rest)]
                          ELSE IF v.rest[1] = ","
                            THEN ParsePairs(Tail(v.rest), kvs)
                          ELSE ParseFail

ParseValue(s) ==
  IF Len(s) = 0 THEN ParseFail
  ELSE IF s[1] = Q THEN ParseStringBody(Tail(s), <<>>)
  ELSE IF s[1] = "null" THEN [ok |-> TRUE, val |-> Null, rest |-> Tail(s)]
  ELSE IF s[1] = "["
    THEN IF Len(s) > 1 /\ s[2] = "]"
           THEN [ok |-> TRUE, val |-> Arr(<<>>), rest |-> SubSeq(s, 3, Len(s))]
         ELSE ParseElems(Tail(s), <<>>)
  ELSE IF s[1] = "{"
    THEN IF Len(s) > 1 /\ s[2] = "}"
           THEN [ok |-> TRUE, val |-> Obj(<<>>), rest |-> SubSeq(s, 3, Len(s))]
         ELSE ParsePairs(Tail(s), <<>>)
  ELSE ParseFail

\* JSON.parse(bodyStr): [threw, val]
JSONparse(s) ==
  LET r == ParseValue(s)
  IN IF r.ok /\ Len(r.rest) = 0
       THEN [threw |-> FALSE, val |-> r.val]
     ELSE [threw |-> TRUE, val |-> Null]

(***************************************************************************)
(* chrome.webRequest request bodies.  requestBody is undefined or an       *)
(* object; raw is undefined, an array of UploadData items, or (malformed)  *)
(* a number; an item is null or an object whose bytes is undefined, an     *)
(* ArrayBuffer, or (malformed) a string; formData.batchJson is undefined   *)
(* or an array of values.                                                  *)
(***************************************************************************)
NoRaw == [tag |-> "undefined", items |-> <<>>]
NoFormData == [tag |-> "undefined", batchJson |-> [tag |-> "undefined", items |-> <<>>]]
NoBody == [tag |-> "undefined", raw |-> NoRaw, formData |-> NoFormData]

RawBody(items) ==
  [tag |-> "object", raw |-> [tag |-> "array", items |-> items], formData |-> NoFormData]
BadRawBody == [tag |-> "object", raw |-> [tag |-> "number", items |-> <<>>], formData |-> NoFormData]
EmptyObjectBody == [tag |-> "object", raw |-> NoRaw, formData |-> NoFormData]
FormBodyNoBatch ==
  [tag |-> "object", raw |-> NoRaw,
   formData |-> [tag |-> "object", batchJson |-> [tag |-> "undefined", items |-> <<>>]]]
FormBody(batch) ==
  [tag |-> "object", raw |-> NoRaw,
   formData |-> [tag |-> "object", batchJson |-> [tag |-> "array", items |-> batch]]]

BytesItem(data) == [tag |-> "object", bytes |-> [tag |-> "buffer", data |-> data]]
FileItem == [tag |-> "object", bytes |-> [tag |-> "undefined", data |-> <<>>]]
NullItem == [tag |-> "null", bytes |-> [tag |-> "undefined", data |-> <<>>]]
StringBytesItem == [tag |-> "object", bytes |-> [tag |-> "string", data |-> <<"x">>]]

\* a byte that is not valid UTF-8, and what TextDecoder makes of it
BadByte == "\\xFF"
Replacement == "\\uFFFD"

\* new TextDecoder("utf-8").decode(bytes): never throws on a buffer
TextDecode(data) ==
  [i \in 1..Len(data) |-> IF data[i] = BadByte THEN Replacement ELSE data[i]]

\* the for loop of decodeRequestBody: [threw, str]
RECURSIVE decodeItems(_, _)
decodeItems(items, bodyStr) ==
  IF Len(items) = 0 THEN [threw |-> FALSE, str |-> bodyStr]
  ELSE LET item == items[1]
       IN IF item.tag = "null" THEN [threw |-> TRUE, str |-> <<>>]
          ELSE IF item.bytes.tag = "undefined" THEN decodeItems(Tail(items), bodyStr)
          ELSE IF item.bytes.tag # "buffer" THEN [threw |-> TRUE, str |-> <<>>]
          ELSE decodeItems(Tail(items), bodyStr \o TextDecode(item.bytes.data))

decodeRequestBody(requestBody) ==
  IF requestBody.tag = "undefined" \/ requestBody.raw.tag = "undefined"
    THEN [threw |-> FALSE, str |-> <<>>]
  ELSE IF requestBody.raw.tag # "array" THEN [threw |-> TRUE, str |-> <<>>]
  ELSE decodeItems(requestBody.raw.items, <<>>)

(***************************************************************************)
(* Gmail smartlabels.                                                      *)
(***************************************************************************)
\* /^\^[a-z_]+/.test(item)
SmartlabelRegexTest(s) == Len(s) > 0 /\ s[1] \in CaretWordAtoms

isSmartlabelsArray(obj) ==
  /\ IsArr(obj)
  /\ Len(obj[2]) # 0
  /\ \A i \in 1..Len(obj[2]) : IsStr(obj[2][i]) /\ SmartlabelRegexTest(obj[2][i][2])

RECURSIVE searchRecursive(_, _)
RECURSIVE searchEach(_, _)

\* (mutant) the values of an object are not searched
searchArraysOnly(item, smartlabels) ==
  IF isSmartlabelsArray(item) THEN Append(smartlabels, item[2])
  ELSE IF IsArr(item) THEN searchEach(item[2], smartlabels)
  ELSE smartlabels

\* the for loops of searchRecursive over the elements (or the values) in order
searchEach(items, smartlabels) ==
  IF Len(items) = 0 THEN smartlabels
  ELSE searchEach(Tail(items), searchRecursive(items[1], smartlabels))

searchRecursive(item, smartlabels) ==
  IF isSmartlabelsArray(item) THEN Append(smartlabels, item[2])
  ELSE IF IsArr(item) THEN searchEach(item[2], smartlabels)
  ELSE IF IsObj(item)
    THEN searchEach([i \in 1..Len(item[2]) |-> item[2][i][2]], smartlabels)
  ELSE smartlabels

\* (mutant) one accumulator shared by every call
keepSmartlabels(previous) == previous

\* `const smartlabels = []`: the accumulator of a call, whatever an earlier call left
newSmartlabels(previous) == <<>>

findSmartlabelsInObject(obj, previous) ==
  searchRecursive(obj, newSmartlabels(previous))

\* Array.prototype.includes on an array of strings
ArrayIncludes(arr, s) == \E i \in 1..Len(arr) : arr[i] = Str(s)

\* the sent-and-not-draft test of the Method 1 loop
smartlabelsIsSend(smartlabels) ==
  LET hasSentFlag == ArrayIncludes(smartlabels, S_pfg) \/ ArrayIncludes(smartlabels, S_f_bt)
      isDraft == ArrayIncludes(smartlabels, S_r) \/ ArrayIncludes(smartlabels, S_r_bt)
  IN hasSentFlag /\ ~isDraft

\* (mutant) Method 2 without the draft exclusion
gmailStringMatchNoDraft(bodyStr) ==
  /\ \/ Includes(bodyStr, Quoted(S_f_bt)) \/ Includes(bodyStr, Quoted(S_pfg))
     \/ Includes(bodyStr, Quoted(S_io_fwd)) \/ Includes(bodyStr, Quoted(S_io_re))
  /\ ~(\/ Includes(bodyStr, Quoted(S_io_lr))
       \/ Includes(bodyStr, Quoted(S_io_lr2m))
       \/ Includes(bodyStr, Quoted(S_io_lr30s)))

\* Method 2 of isGmailSendRequest, on the decoded text
gmailStringMatch(bodyStr) ==
  LET hasSentFlags ==
        Includes(bodyStr, Quoted(S_f_bt)) \/ Includes(bodyStr, Quoted(S_pfg))
      hasActionMarker ==
        Includes(bodyStr, Quoted(S_io_fwd)) \/ Includes(bodyStr, Quoted(S_io_re))
      isDraft ==
        Includes(bodyStr, Quoted(S_r)) \/ Includes(bodyStr, Quoted(S_r_bt))
      hasSyncOnlyMarkers ==
        \/ Includes(bodyStr, Quoted(S_io_lr))
        \/ Includes(bodyStr, Quoted(S_io_lr2m))
        \/ Includes(bodyStr, Quoted(S_io_lr30s))
  IN (hasSentFlags \/ hasActionMarker) /\ ~isDraft /\ ~hasSyncOnlyMarkers

\* Method 1 of isGmailSendRequest: [found, smartlabels]
gmailSmartlabelMatch(parsed, previous) ==
  IF ~parsed.threw /\ Truthy(parsed.val)
    THEN LET smartlabelsArrays == findSmartlabelsInObject(parsed.val, previous)
         IN [found |-> \E i \in 1..Len(smartlabelsArrays) :
                         smartlabelsIsSend(smartlabelsArrays[i]),
             smartlabels |-> smartlabelsArrays]
  ELSE [found |-> FALSE, smartlabels |-> previous]

\* (mutant) a body that parses is settled by Method 1 alone
gmailTryNoFallThrough(requestBody, previous) ==
  LET body == decodeRequestBody(requestBody)
  IN IF body.threw THEN [threw |-> TRUE, ret |-> FALSE, smartlabels |-> previous]
     ELSE IF Len(body.str) = 0 THEN [threw |-> FALSE, ret |-> FALSE, smartlabels |-> previous]
     ELSE LET parsed == JSONparse(body.str)
              method1 == gmailSmartlabelMatch(parsed, previous)
          IN [threw |-> FALSE,
              ret |-> IF ~parsed.threw /\ Truthy(parsed.val) THEN method1.found
                      ELSE gmailStringMatch(body.str),
              smartlabels |-> method1.smartlabels]

\* the try block of isGmailSendRequest: [threw, ret, smartlabels]
gmailTry(requestBody, previous) ==
  LET body == decodeRequestBody(requestBody)
  IN IF body.threw THEN [threw |-> TRUE, ret |-> FALSE, smartlabels |-> previous]
     ELSE IF Len(body.str) = 0 THEN [threw |-> FALSE, ret |-> FALSE, smartlabels |-> previous]
     ELSE LET method1 == gmailSmartlabelMatch(JSONparse(body.str), previous)
          IN [threw |-> FALSE,
              ret |-> IF method1.found THEN TRUE ELSE gmailStringMatch(body.str),
              smartlabels |-> method1.smartlabels]

\* (mutant) no catch: what the try block raises reaches the caller
catchNothing(r) == r

\* `catch (_err) { return false; }` of each classifier
catchReturnFalse(r) == IF r.threw THEN [r EXCEPT !.threw = FALSE, !.ret = FALSE] ELSE r

isGmailSendRequest(requestBody, previous) ==
  catchReturnFalse(gmailTry(requestBody, previous))

(***************************************************************************)
(* Outlook, Yahoo, ProtonMail, Yandex.  A url or a method is undefined or  *)
(* a string: [tag, s].                                                     *)
(***************************************************************************)
Undefined == [tag |-> "undefined", s |-> <<>>]
StringOf(s) == [tag |-> "string", s |-> s]

F_SendAndSaveCopy == <<Q, "MessageDisposition", Q, ":", Q, "SendAndSaveCopy", Q>>
F_SaveOnly == <<Q, "MessageDisposition", Q, ":", Q, "SaveOnly", Q>>
F_newMail == <<Q, "ComposeOperation", Q, ":", Q, "newMail", Q>>
F_reply == <<Q, "ComposeOperation", Q, ":", Q, "reply", Q>>
F_saveAndSend == <<"name=messages.save", "AndSend">>
F_slashSend == <<"/send">>
F_idSendMessage == <<Q, "id", Q, ":", Q, "SendMessage", Q>>
F_protonPath == <<"/api/mail/v4/messages/">>
F_sourceComposer == <<"?", "Source=composer">>
F_yandexPath == <<"/web-api/do-send/">>
F_sendTrue == <<"_send=", "true">>
POST == <<"POST">>

\* the try block of isOutlookSendRequest: [threw, ret]
outlookTry(requestBody) ==
  LET body == decodeRequestBody(requestBody)
  IN IF body.threw THEN [threw |-> TRUE, ret |-> FALSE]
     ELSE IF Len(body.str) = 0 THEN [threw |-> FALSE, ret |-> FALSE]
     ELSE LET isSendAndSave == Includes(body.str, F_SendAndSaveCopy)
              isComposeOperation == Includes(body.str, F_newMail)
          IN [threw |-> FALSE, ret |-> isSendAndSave /\ isComposeOperation]

isOutlookSendRequest(requestBody) == catchReturnFalse(outlookTry(requestBody))

\* (mutant) the two substrings looked for in any strings of the batch
batchSomeAcross(batch) ==
  [threw |-> FALSE,
   ret |-> /\ \E i \in 1..Len(batch) : batch[i][1] = "str" /\ Includes(batch[i][2], <<"/send">>)
           /\ \E i \in 1..Len(batch) :
                batch[i][1] = "str"
                /\ Includes(batch[i][2], <<Q, "id", Q, ":", Q, "SendMessage", Q>>)]

\* batchJson.some(b => b.includes("/send") && b.includes('"id":"SendMessage"')):
\* b.includes throws on a value that is no string
RECURSIVE batchSome(_)
batchSome(batch) ==
  IF Len(batch) = 0 THEN [threw |-> FALSE, ret |-> FALSE]
  ELSE IF ~IsStr(batch[1]) THEN [threw |-> TRUE, ret |-> FALSE]
  ELSE IF Includes(batch[1][2], F_slashSend) /\ Includes(batch[1][2], F_idSendMessage)
    THEN [threw |-> FALSE, ret |-> TRUE]
  ELSE batchSome(Tail(batch))

\* the try block of isYahooSendRequest: [threw, ret]
yahooTry(requestBody, url) ==
  IF url.tag = "undefined" THEN [threw |-> TRUE, ret |-> FALSE]
  ELSE IF ~Includes(url.s, F_saveAndSend) THEN [threw |-> FALSE, ret |-> FALSE]
  ELSE IF \/ requestBody.tag = "undefined"
          \/ requestBody.formData.tag = "undefined"
          \/ requestBody.formData.batchJson.tag = "undefined"
    THEN [threw |-> FALSE, ret |-> FALSE]
  ELSE batchSome(requestBody.formData.batchJson.items)

isYahooSendRequest(requestBody, url) == catchReturnFalse(yahooTry(requestBody, url))

\* method === "POST" && url.includes(path) && url.includes(query): [threw, ret]
postToUrlWith(url, method, path, query) ==
  IF ~(method.tag = "string" /\ method.s = POST) THEN [threw |-> FALSE, ret |-> FALSE]
  ELSE IF url.tag = "undefined" THEN [threw |-> TRUE, ret |-> FALSE]
  ELSE [threw |-> FALSE, ret |-> Includes(url.s, path) /\ Includes(url.s, query)]

\* (mutant) the method is not looked at
protonTryAnyMethod(url, method) ==
  IF url.tag = "undefined" THEN [threw |-> TRUE, ret |-> FALSE]
  ELSE [threw |-> FALSE,
        ret |-> Includes(url.s, F_protonPath) /\ Includes(url.s, F_sourceComposer)]

protonTry(url, method) == postToUrlWith(url, method, F_protonPath, F_sourceComposer)

isProtonMailSendRequest(url, method) == catchReturnFalse(protonTry(url, method))

yandexTry(url, method) == postToUrlWith(url, method, F_yandexPath, F_sendTrue)

isYandexSendRequest(url, method) == catchReturnFalse(yandexTry(url, method))

(***************************************************************************)
(* The values a Gmail page may send as JSON: every value of at most        *)
(* MaxNodes nodes over the core strings, and every value of at most        *)
(* MaxNodes - 2 nodes over all the strings of background.js.  A node is a  *)
(* string, null, an array or a one-key object.                             *)
(***************************************************************************)
AllLeaves == {Str(s) : s \in Strings} \cup {Null}
CoreLeaves == {Str(S_pfg), Str(S_r), Str(S_plain)}
Keys == {S_plain, S_r}

\* T[k]: the values of k nodes; F[k+1]: the element sequences of k nodes
RECURSIVE BuildValues(_, _, _, _, _)
BuildValues(k, max, leaves, T, F) ==
  IF k > max THEN T
  ELSE LET Tk == (IF k = 1 THEN leaves ELSE {})
                   \cup {Arr(f) : f \in F[k]}
                   \cup (IF k = 1 THEN {}
                         ELSE {Obj(<<<<key, t>>>>) : key \in Keys, t \in T[k - 1]})
           T2 == Append(T, Tk)
           Fk == IF k = max THEN {}
                 ELSE UNION {{<<t>> \o f : t \in T2[j], f \in F[k - j + 1]} : j \in 1..k}
       IN BuildValues(k + 1, max, leaves, T2, Append(F, Fk))

CoreValuesBySize == BuildValues(1, MaxNodes, CoreLeaves, <<>>, <<{<<>>}>>)
AllValuesBySize == BuildValues(1, MaxNodes - 2, AllLeaves, <<>>, <<{<<>>}>>)

\* the values of at most MaxNodes - less nodes
ValuesLess(less) ==
  UNION {CoreValuesBySize[k] : k \in 1..(MaxNodes - less)}
  \cup UNION {AllValuesBySize[k] : k \in 1..(MaxNodes - 2 - less)}

JunkPrefix == <<")]}'">>

\* the upload of a text in one item
OneChunk(text) == RawBody(<<BytesItem(text)>>)
\* the upload of a text in two items around an item that holds a file, no bytes
TwoChunks(text, i) ==
  RawBody(<<BytesItem(SubSeq(text, 1, i)), FileItem, BytesItem(SubSeq(text, i + 1, Len(text)))>>)

\* bodies that are absent, hold no raw chunks, or are malformed
OddBodies ==
  { NoBody, EmptyObjectBody, BadRawBody, FormBodyNoBatch,
    RawBody(<<>>), RawBody(<<FileItem>>), RawBody(<<NullItem>>),
    RawBody(<<StringBytesItem>>),
    RawBody(<<BytesItem(Quoted(S_pfg)), NullItem>>),
    RawBody(<<BytesItem(F_SendAndSaveCopy \o F_newMail), StringBytesItem>>),
    FormBody(<<Null>>) }

OutlookBodies ==
  {RawBody(<<BytesItem(<<"{">> \o d \o <<",">> \o c \o <<"}">>)>>)
   : d \in {F_SendAndSaveCopy, F_SaveOnly, <<>>}, c \in {F_newMail, F_reply, <<>>}}

\* Yahoo batchJson elements: strings made of the two fragments, and a value
\* that is no string
BatchElements ==
  { Str(<<>>), Str(F_slashSend), Str(F_idSendMessage),
    Str(F_slashSend \o F_idSendMessage), Str(F_idSendMessage \o <<"x">> \o F_slashSend),
    Null }

RECURSIVE SeqsUpTo(_, _)
SeqsUpTo(S, n) ==
  IF n = 0 THEN {<<>>}
  ELSE LET shorter == SeqsUpTo(S, n - 1)
       IN shorter \cup {Append(q, e) : q \in shorter, e \in S}

YahooBodies == {FormBody(b) : b \in SeqsUpTo(BatchElements, MaxBatch)}

YahooUrls ==
  { StringOf(<<"https://mail.yahoo.com", "/ws/v3/batch", "?">> \o F_saveAndSend),
    StringOf(<<"https://mail.yahoo.com", "/ws/v3/batch", "?", "name=messages.save">>),
    StringOf(<<"https://mail.yahoo.com", "/ws/v3/batch", "?", "name=messages.save", "&", "AndSend">>),
    StringOf(<<"https://mail.yahoo.com", "/ws/v3/batch", "?", "a=1", "&">> \o F_saveAndSend) }

ProtonUrls ==
  { StringOf(<<"https://mail.proton.me">> \o F_protonPath \o F_sourceComposer),
    StringOf(<<"https://mail.proton.me">> \o F_protonPath \o <<"id1">> \o F_sourceComposer),
    StringOf(<<"https://mail.proton.me">> \o F_protonPath),
    StringOf(<<"https://mail.proton.me">> \o F_protonPath \o <<"?", "a=1", "&", "Source=composer">>),
    StringOf(<<"https://mail.proton.me">> \o F_protonPath \o <<"?", "Source=other">>),
    StringOf(<<"https://mail.proton.me", "/api/mail/v4/conversations/">> \o F_sourceComposer) }

YandexUrls ==
  { StringOf(<<"https://mail.yandex.ru">> \o F_yandexPath \o <<"?">> \o F_sendTrue),
    StringOf(<<"https://mail.yandex.ru">> \o F_yandexPath \o <<"?", "_send=", "false">>),
    StringOf(<<"https://mail.yandex.ru">> \o F_yandexPath),
    StringOf(<<"https://mail.yandex.ru", "/web-api/do-save/", "?">> \o F_sendTrue) }

Methods == {StringOf(POST), StringOf(<<"GET">>), StringOf(<<"PUT">>), StringOf(<<"post">>), Undefined}

GmailUrlIS == StringOf(<<"https://mail.google.com", "/sync/u/", "0", "/i/s", "?", "hl=en">>)

Details(url, method, requestBody, tabId) ==
  [url |-> url, method |-> method, requestBody |-> requestBody, tabId |-> tabId,
   requestId |-> 0]

\* what the classifiers are applied to besides the Gmail bodies:
\* <<classifier, details>>
OtherInputs ==
  {<<"gmailIS", Details(GmailUrlIS, StringOf(POST), b, 1)>> : b \in OddBodies}
  \cup {<<"outlook", Details(Undefined, StringOf(POST), b, 1)>> : b \in OutlookBodies \cup OddBodies}
  \cup {<<"yahoo", Details(u, StringOf(POST), b, 1)>>
        : u \in YahooUrls \cup {Undefined}, b \in YahooBodies \cup OddBodies}
  \cup {<<"proton", Details(u, m, b, 1)>>
        : u \in ProtonUrls \cup {Undefined}, m \in Methods,
          b \in {NoBody, OneChunk(Quoted(S_pfg)), RawBody(<<NullItem>>)}}
  \cup {<<"yandex", Details(u, m, NoBody, 1)>> : u \in YandexUrls \cup {Undefined}, m \in Methods}

GmailDetails(requestBody) == Details(GmailUrlIS, StringOf(POST), requestBody, 1)

(***************************************************************************)
(* State.                                                                  *)
(***************************************************************************)
VARIABLES
  classifier,  \* the listener whose callback ran last, "none" before any
  details,     \* the intercepted request being handled
  outcome,     \* [done, threw, ret]: how the last classifier call ended
  smartlabels, \* the accumulator of the last findSmartlabelsInObject call
  sent,        \* the chrome.tabs.sendMessage calls made, in order, each with
               \* the state of its promise and the number of requests
               \* intercepted when it settled
  pending,     \* the listeners still to be called for `details`, in order
  log,         \* history: every listener call, its request and its verdict
  unhandled,   \* promise rejections that no handler took
  banners,     \* content script: the containers created, in order
  timers,      \* content script: the armed timeouts
  received     \* content script: the actions of the messages received

bgVars == <<classifier, details, outcome, smartlabels, sent, pending, log, unhandled>>
csVars == <<banners, timers, received>>
vars == <<classifier, details, outcome, smartlabels, sent, pending, log, unhandled,
          banners, timers, received>>

NotCalled == [done |-> FALSE, threw |-> FALSE, ret |-> FALSE]
Returned(r) == [done |-> TRUE, threw |-> r.threw, ret |-> r.ret]

\* chrome.tabs.sendMessage(details.tabId, { action: "emailSent" }) of a
\* listener: the message and its promise
EmailSent(d, listener) ==
  [tabId |-> d.tabId, action |-> "emailSent", requestId |-> d.requestId,
   listener |-> listener, status |-> "pending", settledAt |-> 0]

\* `if (verdict) chrome.tabs.sendMessage(...)` of each listener
sendIf(verdict, d, listener, messages) ==
  IF verdict.ret /\ ~verdict.threw THEN Append(messages, EmailSent(d, listener))
  ELSE messages

\* the classifier a listener calls on the request: [threw, ret, smartlabels]
classify(listener, d, previous) ==
  CASE listener \in {"gmailIS", "gmailFD"} -> isGmailSendRequest(d.requestBody, previous)
    [] listener = "outlook" ->
         [smartlabels |-> previous] @@ isOutlookSendRequest(d.requestBody)
    [] listener = "yahoo" ->
         [smartlabels |-> previous] @@ isYahooSendRequest(d.requestBody, d.url)
    [] listener = "proton" ->
         [smartlabels |-> previous] @@ isProtonMailSendRequest(d.url, d.method)
    [] listener = "yandex" ->
         [smartlabels |-> previous] @@ isYandexSendRequest(d.url, d.method)

\* the callback of a listener, run on `details`
Callback(listener) ==
  LET r == classify(listener, details, smartlabels)
  IN /\ classifier' = listener
     /\ outcome' = Returned(r)
     /\ smartlabels' = r.smartlabels
     /\ sent' = IF r.threw THEN sent ELSE sendIf(r, details, listener, sent)
     /\ log' = log \cup {[listener |-> listener, details |-> details, ret |-> r.ret,
                           threw |-> r.threw]}

(***************************************************************************)
(* SpecClassify: one listener callback run on one request, whatever its    *)
(* url (the url filter of the listener is left out here).                  *)
(***************************************************************************)
InitIdle ==
  /\ classifier = "none"
  /\ outcome = NotCalled
  /\ smartlabels = <<>>
  /\ sent = <<>>
  /\ log = {}
  /\ unhandled = 0
  /\ banners = <<>>
  /\ timers = {}
  /\ received = <<>>

InitClassify ==
  /\ InitIdle
  /\ \/ \E in \in OtherInputs : pending = <<in[1]>> /\ details = in[2]
     \/ /\ pending \in {<<"gmailIS">>, <<"gmailFD">>}
        /\ \/ \E v \in ValuesLess(0) : details = GmailDetails(OneChunk(Stringify(v)))
           \/ \E v \in ValuesLess(1) :
                details = GmailDetails(OneChunk(JunkPrefix \o Stringify(v)))
           \/ \E v \in ValuesLess(1) :
                details = GmailDetails(OneChunk(Stringify(v) \o <<BadByte>>))
           \/ \E v \in ValuesLess(2) : \E i \in 1..(Len(Stringify(v)) - 1) :
                details = GmailDetails(TwoChunks(Stringify(v), i))

CallGmailIS ==
  /\ pending # <<>> /\ Head(pending) = "gmailIS"
  /\ Callback("gmailIS")
  /\ pending' = Tail(pending)
  /\ UNCHANGED <<details, unhandled, banners, timers, received>>

CallGmailFD ==
  /\ pending # <<>> /\ Head(pending) = "gmailFD"
  /\ Callback("gmailFD")
  /\ pending' = Tail(pending)
  /\ UNCHANGED <<details, unhandled, banners, timers, received>>

CallOutlook ==
  /\ pending # <<>> /\ Head(pending) = "outlook"
  /\ Callback("outlook")
  /\ pending' = Tail(pending)
  /\ UNCHANGED <<details, unhandled, banners, timers, received>>

CallYahoo ==
  /\ pending # <<>> /\ Head(pending) = "yahoo"
  /\ Callback("yahoo")
  /\ pending' = Tail(pending)
  /\ UNCHANGED <<details, unhandled, banners, timers, received>>

CallProton ==
  /\ pending # <<>> /\ Head(pending) = "proton"
  /\ Callback("proton")
  /\ pending' = Tail(pending)
  /\ UNCHANGED <<details, unhandled, banners, timers, received>>

CallYandex ==
  /\ pending # <<>> /\ Head(pending) = "yandex"
  /\ Callback("yandex")
  /\ pending' = Tail(pending)
  /\ UNCHANGED <<details, unhandled, banners, timers, received>>

NextClassify ==
  CallGmailIS \/ CallGmailFD \/ CallOutlook \/ CallYahoo \/ CallProton \/ CallYandex

SpecClassify == InitClassify /\ [][NextClassify]_vars

(***************************************************************************)
(* Spec: the pipeline.  The browser hands each intercepted request to the  *)
(* listeners whose url filter matches it, in the order they were added;    *)
(* the promise of each sendMessage settles later, either way.              *)
(***************************************************************************)
\* the urls filters of the addListener calls; "*" matches any run of atoms
Filter(listener) ==
  CASE listener = "gmailIS" -> <<"https://mail.google.com", "/sync/u/", "*", "/i/s", "*">>
    [] listener = "gmailFD" -> <<"https://mail.google.com", "/sync/u/", "*", "/i/fd", "*">>
    [] listener = "outlook" ->
         <<"https://outlook.live.com", "/owa/", "*", "/service.svc", "?", "action=CreateItem", "*">>
    [] listener = "yahoo" ->
         <<"https://mail.yahoo.com", "/ws/v3/batch", "?", "name=messages.save", "AndSend", "*">>
    [] listener = "proton" -> <<"https://mail.proton.me", "/api/mail/v4/messages/", "*">>
    [] listener = "yandex" -> <<"https://mail.yandex.ru", "/web-api/do-send/", "*">>

\* the listeners in the order background.js adds them
Listeners == <<"gmailIS", "gmailFD", "outlook", "yahoo", "proton", "yandex">>

\* a match pattern against a url
RECURSIVE GlobMatch(_, _)
GlobMatch(pattern, url) ==
  IF pattern = <<>> THEN url = <<>>
  ELSE IF pattern[1] = "*"
    THEN \E k \in 0..Len(url) : GlobMatch(Tail(pattern), SubSeq(url, k + 1, Len(url)))
  ELSE url # <<>> /\ url[1] = pattern[1] /\ GlobMatch(Tail(pattern), Tail(url))

RECURSIVE SelectSeq2(_, _)
SelectSeq2(ls, url) ==
  IF ls = <<>> THEN <<>>
  ELSE IF GlobMatch(Filter(ls[1]), url) THEN <<ls[1]>> \o SelectSeq2(Tail(ls), url)
  ELSE SelectSeq2(Tail(ls), url)

\* the listeners the browser calls for a url, in order
Matching(url) == SelectSeq2(Listeners, url.s)

GmailUrlFD == StringOf(<<"https://mail.google.com", "/sync/u/", "0", "/i/fd", "?", "hl=en">>)
GmailUrlBoth == StringOf(<<"https://mail.google.com", "/sync/u/", "0", "/i/s", "?", "pt=", "/i/fd">>)
OutlookUrl ==
  StringOf(<<"https://outlook.live.com", "/owa/", "0", "/service.svc", "?", "action=CreateItem",
             "&", "app=Mail">>)

\* Gmail is open in two tabs, every other provider in one
GmailTabIds == {1, 2}
OtherTabIds == {3}

\* the requests of a browsing session: sends and others, for every listener
PipelineRequests ==
  {Details(u, StringOf(POST), OneChunk(Stringify(v)), t)
   : u \in {GmailUrlIS, GmailUrlFD, GmailUrlBoth},
     v \in {Arr(<<Arr(<<Str(S_pfg)>>)>>), Arr(<<Str(S_plain)>>)},
     t \in GmailTabIds}
  \cup {Details(OutlookUrl, StringOf(POST),
                OneChunk(<<"{">> \o d \o <<",">> \o F_newMail \o <<"}">>), t)
        : d \in {F_SendAndSaveCopy, F_SaveOnly}, t \in OtherTabIds}
  \cup {Details(StringOf(<<"https://mail.yahoo.com", "/ws/v3/batch", "?">> \o F_saveAndSend),
                StringOf(POST), FormBody(<<Str(F_slashSend \o F_idSendMessage)>>), t)
        : t \in OtherTabIds}
  \cup {Details(StringOf(<<"https://mail.proton.me">> \o F_protonPath \o F_sourceComposer),
                m, NoBody, t)
        : m \in {StringOf(POST), StringOf(<<"GET">>)}, t \in OtherTabIds}
  \cup {Details(StringOf(<<"https://mail.yandex.ru">> \o F_yandexPath \o <<"?">> \o F_sendTrue),
                StringOf(POST), NoBody, t)
        : t \in OtherTabIds}

NoDetails == Details(Undefined, Undefined, NoBody, 0)

Init ==
  /\ InitIdle
  /\ pending = <<>>
  /\ details = NoDetails

\* chrome.webRequest.onBeforeRequest fires for a request
Intercept ==
  /\ pending = <<>>
  /\ details.requestId < MaxRequests
  /\ \E d \in PipelineRequests :
       /\ Matching(d.url) # <<>>
       /\ details' = [d EXCEPT !.requestId = details.requestId + 1]
       /\ pending' = Matching(d.url)
  /\ UNCHANGED <<classifier, outcome, smartlabels, sent, log, unhandled,
                 banners, timers, received>>

\* (mutant) the handler sends the message again
catchRetry(messages, i, now) ==
  Append([messages EXCEPT ![i].status = "rejected", ![i].settledAt = now],
         [messages[i] EXCEPT !.status = "pending"])

\* `.catch(() => {})`: the rejection of promise i is taken and dropped
catchDrop(messages, i, now) ==
  [messages EXCEPT ![i].status = "rejected", ![i].settledAt = now]

\* the tab has a content script listening: the promise resolves
Deliver ==
  /\ \E i \in 1..Len(sent) :
       /\ sent[i].status = "pending"
       /\ sent' = [sent EXCEPT ![i].status = "delivered", ![i].settledAt = details.requestId]
  /\ UNCHANGED <<classifier, details, outcome, smartlabels, pending, log, unhandled,
                 banners, timers, received>>

\* the tab is gone or not listening: the promise rejects
Reject ==
  /\ \E i \in 1..Len(sent) :
       /\ sent[i].status = "pending"
       /\ sent' = catchDrop(sent, i, details.requestId)
  /\ UNCHANGED <<classifier, details, outcome, smartlabels, pending, log, unhandled,
                 banners, timers, received>>

Next ==
  \/ Intercept
  \/ CallGmailIS \/ CallGmailFD \/ CallOutlook \/ CallYahoo \/ CallProton \/ CallYandex
  \/ Deliver
  \/ Reject

Spec == Init /\ [][Next]_vars

(***************************************************************************)
(* SpecContent: the content script of one page.  A banner is the container *)
(* div of one showText call: [inDom, hidden, removals].  playSound touches *)
(* only an Audio object that nothing reads, and is left out.               *)
(***************************************************************************)
Actions == {"emailSent", "other"}

Banner == [inDom |-> TRUE, hidden |-> FALSE, removals |-> 0]
Timer(banner, kind) == [banner |-> banner, kind |-> kind]

\* the first setTimeout callback: container.classList.add("email-sent-hide")
hideCallback(b) == [b EXCEPT !.hidden = TRUE]

\* (mutant) the cleanup is left out
removeCallbackSkipped(b) == b

\* the second setTimeout callback: remove the container if it has a parent
removeCallback(b) ==
  IF b.inDom THEN [b EXCEPT !.inDom = FALSE, !.removals = @ + 1] ELSE b

InitContent ==
  /\ InitIdle
  /\ pending = <<>>
  /\ details = NoDetails

\* chrome.runtime.onMessage: showText() for an emailSent message
OnMessage ==
  /\ Len(received) < MaxMessages
  /\ \E action \in Actions :
       /\ received' = Append(received, action)
       /\ IF action = "emailSent"
            THEN /\ banners' = Append(banners, Banner)
                 /\ timers' = timers \cup {Timer(Len(banners) + 1, "hide")}
          ELSE UNCHANGED <<banners, timers>>
  /\ UNCHANGED bgVars

\* the 5000 ms timeout of a banner fires and arms the 10000 ms one
HideTimeout ==
  /\ \E t \in timers :
       /\ t.kind = "hide"
       /\ banners' = [banners EXCEPT ![t.banner] = hideCallback(@)]
       /\ timers' = (timers \ {t}) \cup {Timer(t.banner, "remove")}
  /\ UNCHANGED <<received>>
  /\ UNCHANGED bgVars

\* the 10000 ms timeout of a banner fires
RemoveTimeout ==
  /\ \E t \in timers :
       /\ t.kind = "remove"
       /\ banners' = [banners EXCEPT ![t.banner] = removeCallback(@)]
       /\ timers' = timers \ {t}
  /\ UNCHANGED <<received>>
  /\ UNCHANGED bgVars

NextContent == OnMessage \/ HideTimeout \/ RemoveTimeout

SpecContent == InitContent /\ [][NextContent]_vars

(***************************************************************************)
(* What the claims speak of, stated on the request itself.                 *)
(***************************************************************************)
\* the decoded text of the request body ("" when it cannot be decoded)
BodyText == decodeRequestBody(details.requestBody).str

HasMarker(s) == Includes(BodyText, Quoted(s))

RECURSIVE SubValues(_)
SubValues(v) ==
  {v} \cup
  (IF IsArr(v) THEN UNION {SubValues(v[2][i]) : i \in 1..Len(v[2])}
   ELSE IF IsObj(v) THEN UNION {SubValues(v[2][i][2]) : i \in 1..Len(v[2])}
   ELSE {})

Elements(v) == {v[2][i] : i \in 1..Len(v[2])}

\* a SmartlabelSet: a non-empty array of strings that each start with a caret
\* and a word
IsSmartlabelSet(v) ==
  /\ IsArr(v) /\ v[2] # <<>>
  /\ \A e \in Elements(v) : IsStr(e) /\ e[2] # <<>> /\ e[2][1] \in CaretWordAtoms

\* a SmartlabelSet that holds a sent marker and no draft marker
IsSendSet(v) ==
  /\ IsSmartlabelSet(v)
  /\ Str(S_pfg) \in Elements(v) \/ Str(S_f_bt) \in Elements(v)
  /\ Str(S_r) \notin Elements(v) /\ Str(S_r_bt) \notin Elements(v)

BodyParses == ~JSONparse(BodyText).threw
BodyValue == JSONparse(BodyText).val

\* Tier 1 yields a qualifying SmartlabelSet
Tier1Qualifies == BodyParses /\ \E u \in SubValues(BodyValue) : IsSendSet(u)

\* the Tier 2 verdict on the raw decoded text
Tier2Verdict ==
  /\ HasMarker(S_f_bt) \/ HasMarker(S_pfg) \/ HasMarker(S_io_fwd) \/ HasMarker(S_io_re)
  /\ ~(HasMarker(S_r) \/ HasMarker(S_r_bt))
  /\ ~(HasMarker(S_io_lr) \/ HasMarker(S_io_lr2m) \/ HasMarker(S_io_lr30s))

GmailCalled == outcome.done /\ classifier \in {"gmailIS", "gmailFD"}

TheoremC2 == (GmailCalled /\ Tier1Qualifies) => (~outcome.threw /\ outcome.ret = TRUE)

\* a qualifying set two levels down, under a draft marker that Tier 2 would
\* take for a draft
WitnessC2 ==
  /\ GmailCalled /\ Tier1Qualifies /\ ~Tier2Verdict /\ outcome.ret = TRUE
  /\ ~IsSendSet(BodyValue)
  /\ \A i \in 1..Len(BodyValue[2]) :
       ~IsSendSet(IF IsObj(BodyValue) THEN BodyValue[2][i][2] ELSE BodyValue[2][i])

\* C3: with a non-empty body and no qualifying SmartlabelSet, the verdict is
\* the Tier 2 verdict on the text, whether or not the body parsed
TheoremC3 ==
  (GmailCalled /\ BodyText # <<>> /\ ~Tier1Qualifies)
    => (~outcome.threw /\ outcome.ret = Tier2Verdict)

\* a body that parses, holds a SmartlabelSet, none qualifying, and is a send
\* by Tier 2
WitnessC3 ==
  /\ GmailCalled /\ BodyParses /\ ~Tier1Qualifies
  /\ \E u \in SubValues(BodyValue) : IsSmartlabelSet(u)
  /\ outcome.ret = TRUE

\* the try block of the classifier that ran raised
TryRaised ==
  CASE classifier \in {"gmailIS", "gmailFD"} -> gmailTry(details.requestBody, <<>>).threw
    [] classifier = "outlook" -> outlookTry(details.requestBody).threw
    [] classifier = "yahoo" -> yahooTry(details.requestBody, details.url).threw
    [] classifier = "proton" -> protonTry(details.url, details.method).threw
    [] classifier = "yandex" -> yandexTry(details.url, details.method).threw
    [] OTHER -> FALSE

\* the request lacks what the classifier that ran reads: the body or its raw
\* chunks (Gmail, Outlook), the url or formData.batchJson (Yahoo), the url or
\* the method (ProtonMail, Yandex)
MissingInput ==
  CASE classifier \in {"gmailIS", "gmailFD", "outlook"} ->
         details.requestBody.tag = "undefined" \/ details.requestBody.raw.tag # "array"
    [] classifier = "yahoo" ->
         \/ details.url.tag = "undefined"
         \/ details.requestBody.tag = "undefined"
         \/ details.requestBody.formData.tag = "undefined"
         \/ details.requestBody.formData.batchJson.tag = "undefined"
    [] classifier \in {"proton", "yandex"} ->
         details.url.tag = "undefined" \/ details.method.tag = "undefined"
    [] OTHER -> FALSE

\* C4: every classifier returns a boolean and never raises; a missing input or
\* an internal failure yields false
TheoremC4 ==
  outcome.done =>
    /\ ~outcome.threw
    /\ outcome.ret \in BOOLEAN
    /\ (MissingInput \/ TryRaised) => outcome.ret = FALSE

\* Yahoo's scan of a batchJson raised on an element that is no string
WitnessC4 ==
  /\ outcome.done /\ classifier = "yahoo" /\ TryRaised
  /\ details.requestBody.formData.batchJson.tag = "array"
  /\ \E i \in 1..Len(details.requestBody.formData.batchJson.items) :
       ~IsStr(details.requestBody.formData.batchJson.items[i])
  /\ outcome.ret = FALSE /\ ~outcome.threw

UrlHas(fragment) == details.url.tag = "string" /\ Includes(details.url.s, fragment)

HasBatchJson ==
  /\ details.requestBody.tag = "object"
  /\ details.requestBody.formData.tag = "object"
  /\ details.requestBody.formData.batchJson.tag = "array"

BatchJson == details.requestBody.formData.batchJson.items

\* one string that holds both /send and "id":"SendMessage"
IsSendString(b) ==
  IsStr(b) /\ Includes(b[2], F_slashSend) /\ Includes(b[2], F_idSendMessage)

YahooCalled == outcome.done /\ classifier = "yahoo"

\* C8 as stated: true exactly when the url holds name=messages.saveAndSend, the
\* body carries formData.batchJson, and one string of it holds both substrings
CexC8 ==
  YahooCalled =>
    (outcome.ret = TRUE <=>
       /\ UrlHas(F_saveAndSend)
       /\ HasBatchJson
       /\ \E i \in 1..Len(BatchJson) : IsSendString(BatchJson[i]))

\* C8 (amended): as stated, with every element before that string a string
TheoremC8 ==
  YahooCalled =>
    /\ ~outcome.threw
    /\ outcome.ret = TRUE <=>
         /\ UrlHas(F_saveAndSend)
         /\ HasBatchJson
         /\ \E i \in 1..Len(BatchJson) :
              /\ IsSendString(BatchJson[i])
              /\ \A j \in 1..(i - 1) : IsStr(BatchJson[j])

\* a send found in the second string of the batch, after a string that holds
\* only one of the substrings
WitnessC8 ==
  /\ YahooCalled /\ outcome.ret = TRUE
  /\ Len(BatchJson) >= 2
  /\ IsStr(BatchJson[1]) /\ Includes(BatchJson[1][2], F_slashSend)
  /\ ~IsSendString(BatchJson[1])

ProtonCalled == outcome.done /\ classifier = "proton"

ProtonSend ==
  /\ details.method = StringOf(POST)
  /\ UrlHas(F_protonPath)
  /\ UrlHas(F_sourceComposer)

\* C9: the ProtonMail verdict is true exactly for a POST whose url holds
\* /api/mail/v4/messages/ and ?Source=composer, and so is the listener's
\* decision to notify, whatever the body
TheoremC9 ==
  ProtonCalled =>
    /\ ~outcome.threw
    /\ outcome.ret = ProtonSend
    /\ (sent # <<>>) = ProtonSend

\* a POST that is a send, with a body; the same url is in ProtonUrls with GET
WitnessC9 ==
  /\ ProtonCalled /\ outcome.ret = TRUE /\ sent # <<>>
  /\ details.requestBody.tag = "object"

(***************************************************************************)
(* The pipeline.                                                           *)
(***************************************************************************)
Messages == {sent[i] : i \in 1..Len(sent)}

\* C5 as stated: a message is sent only on a true verdict of the listener for
\* that request, to that request's tab, and at most once for a request
CexC5 ==
  \A i \in 1..Len(sent) :
    /\ sent[i].action = "emailSent"
    /\ \E e \in log :
         /\ e.listener = sent[i].listener
         /\ e.details.requestId = sent[i].requestId
         /\ e.ret = TRUE
         /\ e.details.tabId = sent[i].tabId
    /\ \A j \in 1..Len(sent) : sent[j].requestId = sent[i].requestId => j = i

\* the rest of C5, without "at most once": every message is an emailSent sent
\* on a true verdict of its listener for its request, to that request's tab
SentOnVerdictToOwnTab ==
  \A i \in 1..Len(sent) :
    /\ sent[i].action = "emailSent"
    /\ \E e \in log :
         /\ e.listener = sent[i].listener
         /\ e.details.requestId = sent[i].requestId
         /\ e.ret = TRUE
         /\ e.details.tabId = sent[i].tabId

\* C6: the verdict of every listener call is the verdict the same request gets
\* from the same classifier with nothing before it
TheoremC6 ==
  \A e \in log : ~e.threw /\ e.ret = classify(e.listener, e.details, <<>>).ret

\* a Gmail request with no SmartlabelSet, no send, right after a Gmail
\* request that was a send by its SmartlabelSet
WitnessC6 ==
  \E e1 \in log, e2 \in log :
    /\ e1.details.requestId = 1 /\ e2.details.requestId = 2
    /\ e1.listener \in {"gmailIS", "gmailFD"} /\ e2.listener \in {"gmailIS", "gmailFD"}
    /\ e1.ret = TRUE /\ e2.ret = FALSE
    /\ ~JSONparse(decodeRequestBody(e2.details.requestBody).str).threw

\* C7: a rejected send is dropped: nothing is left unhandled, nothing is sent
\* again, and every listener call, also after a rejection, sends exactly when
\* its verdict is true
TheoremC7 ==
  /\ unhandled = 0
  /\ Len(sent) = Cardinality({e \in log : e.ret})
  /\ \A e \in log :
       e.ret => \E m \in Messages :
                  /\ m.listener = e.listener
                  /\ m.requestId = e.details.requestId
                  /\ m.tabId = e.details.tabId
  /\ (pending = <<>> /\ details.requestId > 0) =>
       \A k \in 1..Len(Matching(details.url)) :
         \E e \in log : e.listener = Matching(details.url)[k] /\ e.details = details

\* a send rejected before the next request came in, and that request notified
WitnessC7 ==
  \E m1 \in Messages, m2 \in Messages :
    /\ m1.status = "rejected"
    /\ m1.settledAt < m2.requestId
    /\ m2.status = "delivered"

(***************************************************************************)
(* The content script.                                                     *)
(***************************************************************************)
EmailSentReceived == {i \in 1..Len(received) : received[i] = "emailSent"}

====
